---------------------------- MODULE Spec2Model ----------------------------
(***************************************************************************)
(* A model of tileview (src/firefox-example-dom.rs): the tile tree         *)
(* flattener tile_node_to_svg, the per-tile classifier tile_to_svg, the     *)
(* snapshot renderer slices_to_svg and the interning report builder         *)
(* updatelist_to_html.                                                      *)
(*                                                                          *)
(* Conventions.  A Rust Option<T> is a sequence of length at most one:      *)
(* <<>> is None and <<v>> is Some(v).  A String that the code builds by     *)
(* appending formatted pieces is the sequence of those pieces, each piece   *)
(* a record whose field t names the format string that produced it.  A     *)
(* panic (an unwrap() of None) is the control state "panicked": the call    *)
(* returns nothing.  f32 values are integers on a small grid.               *)
(***************************************************************************)
EXTENDS Integers, Sequences, FiniteSets, TLC

VARIABLES
    \* tile_node_to_svg: its arguments, where the call stands, what it returned
    node, transform, flat_pc, flat_out,
    \* slices_to_svg: its arguments
    slices, prev_slices, itemuid_to_string, max_slice_index,
    \* slices_to_svg: its locals, its position and its return value
    svg, invalidation_report, pc, si, ti, prev_slice, prev_tile, result,
    \* updatelist_to_html: its arguments, its local, its position
    update_lists, report_arg, html, html_pc, ci

flat_vars == <<node, transform, flat_pc, flat_out>>
render_vars == <<slices, prev_slices, itemuid_to_string, max_slice_index,
                 svg, invalidation_report, pc, si, ti, prev_slice, prev_tile,
                 result>>
html_vars == <<update_lists, report_arg, html, html_pc, ci>>
vars == <<flat_vars, render_vars, html_vars>>

---------------------------------------------------------------------------
(* Option and sequence helpers *)

None == <<>>

Some(v) == <<v>>

IsSome(o) == Len(o) = 1

Unwrap(o) == o[1]

Range(s) == {s[k] : k \in 1..Len(s)}

\* All sequences over S of length at most n.
SeqUpTo(S, n) == UNION {[1..k -> S] : k \in 0..n}

---------------------------------------------------------------------------
(* Geometry: euclid's Box2D::to_rect and Transform3D::outer_transformed_rect *)

\* struct SvgSettings { scale, x, y }
SvgSettings == [scale |-> 2, x |-> 1, y |-> 3]

Point(x, y) == [x |-> x, y |-> y]

\* node.rect.to_rect(): a box (min, max) as a rectangle (origin, size)
ToRect(box) ==
    [origin |-> box.min,
     size |-> [width |-> box.max.x - box.min.x,
               height |-> box.max.y - box.min.y]]

\* Transform3D::transform_point2d: None when the homogeneous w is not
\* positive, else the projected point.
TransformPoint2d(tr, p) ==
    LET w == tr.m14 * p.x + tr.m44
    IN  IF w <= 0
        THEN None
        ELSE Some(Point((tr.m11 * p.x + tr.m41) \div w,
                        (tr.m22 * p.y + tr.m42) \div w))

\* Transform3D::outer_transformed_rect: the bounding rectangle of the four
\* projected corners, None as soon as one corner does not project.
OuterTransformedRect(tr, rect) ==
    LET x0 == rect.origin.x
        y0 == rect.origin.y
        x1 == rect.origin.x + rect.size.width
        y1 == rect.origin.y + rect.size.height
        corners == <<TransformPoint2d(tr, Point(x0, y0)),
                     TransformPoint2d(tr, Point(x1, y1)),
                     TransformPoint2d(tr, Point(x1, y0)),
                     TransformPoint2d(tr, Point(x0, y1))>>
    IN  IF \E k \in 1..4 : ~IsSome(corners[k])
        THEN None
        ELSE LET xs == {Unwrap(corners[k]).x : k \in 1..4}
                 ys == {Unwrap(corners[k]).y : k \in 1..4}
                 minx == CHOOSE v \in xs : \A u \in xs : v <= u
                 maxx == CHOOSE v \in xs : \A u \in xs : v >= u
                 miny == CHOOSE v \in ys : \A u \in ys : v <= u
                 maxy == CHOOSE v \in ys : \A u \in ys : v >= u
             IN  Some([origin |-> Point(minx, miny),
                       size |-> [width |-> maxx - minx,
                                 height |-> maxy - miny]])

---------------------------------------------------------------------------
(* tile_node_to_svg *)

Leaf(box) == [kind |-> "Leaf", rect |-> box, children |-> <<>>]

Interior(box, cs) == [kind |-> "Node", rect |-> box, children |-> cs]

\* The <rect .../> line of a leaf, "{:.2}" being two decimals.
LeafFragment(rect_world, settings) ==
    [t |-> "<rect x y width height />",
     x |-> rect_world.origin.x * settings.scale + settings.x,
     y |-> rect_world.origin.y * settings.scale + settings.y,
     width |-> rect_world.size.width * settings.scale,
     height |-> rect_world.size.height * settings.scale,
     decimals |-> 2]

\* A call's outcome: [ok |-> TRUE, out |-> the String] when it returns,
\* [ok |-> FALSE] when it panics.
Returned(s) == [ok |-> TRUE, out |-> s]

Panicked == [ok |-> FALSE, out |-> <<>>]

RECURSIVE TileNodeToSvg(_, _, _)
RECURSIVE FoldChildren(_, _, _, _, _)

\* The fold with its operands swapped: each child's output goes in front.
RECURSIVE FoldChildrenPrepending(_, _, _, _, _)
FoldChildrenPrepending(children, k, acc, tr, settings) ==
    IF k > Len(children)
    THEN Returned(acc)
    ELSE LET r == TileNodeToSvg(children[k], tr, settings)
         IN  IF r.ok
             THEN FoldChildrenPrepending(children, k + 1, r.out \o acc, tr, settings)
             ELSE Panicked

\* children.iter().fold(String::new(), |acc, child| acc + &tile_node_to_svg(child, ..))
\* from child k on, acc being the String folded so far.
FoldChildren(children, k, acc, tr, settings) ==
    IF k > Len(children)
    THEN Returned(acc)
    ELSE LET r == TileNodeToSvg(children[k], tr, settings)
         IN  IF r.ok
             THEN FoldChildren(children, k + 1, acc \o r.out, tr, settings)
             ELSE Panicked

TileNodeToSvg(n, tr, settings) ==
    IF n.kind = "Leaf"
    THEN LET projected == OuterTransformedRect(tr, ToRect(n.rect))
         IN  IF IsSome(projected)
             THEN Returned(<<LeafFragment(Unwrap(projected), settings)>>)
             ELSE Panicked   \* .unwrap() of None
    ELSE FoldChildren(n.children, 1, <<>>, tr, settings)

---------------------------------------------------------------------------
(* Inputs of tile_node_to_svg *)

\* The largest tile tree drawn, in nodes.
MaxNodes == 4

Box(x0, y0, x1, y1) == [min |-> Point(x0, y0), max |-> Point(x1, y1)]

\* Leaf boxes: two in the column x = 0, one reaching x = 1.
LeafBoxes == {Box(0, 0, 0, 1), Box(0, 1, 0, 2), Box(0, 0, 1, 1)}

\* The box of an interior node is not read by tile_node_to_svg.
InteriorBox == Box(0, 0, 1, 2)

\* The identity, a scale with a translation, and a perspective transform
\* whose w = 1 - x is not positive from x = 1 on.
Transforms ==
    {[m11 |-> 1, m22 |-> 1, m41 |-> 0, m42 |-> 0, m14 |-> 0, m44 |-> 1],
     [m11 |-> 2, m22 |-> 3, m41 |-> 1, m42 |-> 0, m14 |-> 0, m44 |-> 1],
     [m11 |-> 1, m22 |-> 1, m41 |-> 0, m42 |-> 0, m14 |-> -1, m44 |-> 1]}

RECURSIVE NodeCount(_)
RECURSIVE ForestCount(_, _)

ForestCount(cs, k) ==
    IF k > Len(cs) THEN 0 ELSE NodeCount(cs[k]) + ForestCount(cs, k + 1)

NodeCount(n) == 1 + ForestCount(n.children, 1)

RECURSIVE TreesUpTo(_)
RECURSIVE ForestsUpTo(_)

\* The sequences of trees holding at most m nodes together.
ForestsUpTo(m) ==
    IF m <= 0
    THEN {<<>>}
    ELSE {<<>>} \cup
         UNION {{<<t>> \o f : f \in ForestsUpTo(m - NodeCount(t))} :
                t \in TreesUpTo(m)}

\* The tile trees of at most m nodes.
TreesUpTo(m) ==
    IF m <= 0
    THEN {}
    ELSE {Leaf(b) : b \in LeafBoxes} \cup
         {Interior(InteriorBox, cs) : cs \in ForestsUpTo(m - 1)}

FlatInputs ==
    /\ node \in TreesUpTo(MaxNodes)
    /\ transform \in Transforms
    /\ flat_pc = "call"
    /\ flat_out = <<>>

IdleFlat ==
    /\ node = Leaf(Box(0, 0, 0, 1))
    /\ transform = [m11 |-> 1, m22 |-> 1, m41 |-> 0, m42 |-> 0, m14 |-> 0, m44 |-> 1]
    /\ flat_pc = "idle"
    /\ flat_out = <<>>

\* The call tile_node_to_svg(&node, &transform, &svg_settings) returns.
FlattenReturns ==
    /\ flat_pc = "call"
    /\ LET r == TileNodeToSvg(node, transform, SvgSettings)
       IN  /\ r.ok
           /\ flat_out' = r.out
           /\ flat_pc' = "returned"
    /\ UNCHANGED <<node, transform, render_vars, html_vars>>

\* The call panics in the unwrap() of a leaf that does not project.
FlattenPanics ==
    /\ flat_pc = "call"
    /\ LET r == TileNodeToSvg(node, transform, SvgSettings)
       IN  /\ ~r.ok
           /\ flat_out' = <<>>
           /\ flat_pc' = "panicked"
    /\ UNCHANGED <<node, transform, render_vars, html_vars>>

---------------------------------------------------------------------------
(* tile_to_svg: the fill style *)

\* (c * 255.0) as u8, c a colour component counted in halves: the product
\* is truncated and the cast saturates at 0 and 255.
ColorToU8(c) ==
    LET v == (c * 255) \div 2
    IN  IF c <= 0 THEN 0 ELSE IF v > 255 THEN 255 ELSE v

Css(name) == [t |-> "css", name |-> name]

\* format!("fill:rgb({},{},{});fill-opacity:0.3;", ..)
RgbFill(color) ==
    [t |-> "fill:rgb({},{},{});fill-opacity:0.3;",
     r |-> ColorToU8(color.r),
     g |-> ColorToU8(color.g),
     b |-> ColorToU8(color.b)]

NoFill == [t |-> "fill:none;"]

\* The fallback chain with the slice's colour tried first.
BackgroundFillSliceFirst(tile, slice) ==
    LET background == IF slice.tile_cache.background_color = None
                      THEN tile.background_color
                      ELSE slice.tile_cache.background_color
    IN  IF IsSome(background) THEN RgbFill(Unwrap(background)) ELSE NoFill

\* The None arm of tile_fill: the tile's colour, else the slice's, else none.
BackgroundFill(tile, slice) ==
    LET background == IF tile.background_color = None
                      THEN slice.tile_cache.background_color
                      ELSE tile.background_color
    IN  IF IsSome(background) THEN RgbFill(Unwrap(background)) ELSE NoFill

\* let tile_fill = match tile.invalidation_reason { .. }
TileFill(tile, slice) ==
    IF tile.invalidation_reason = None
    THEN BackgroundFill(tile, slice)
    ELSE LET tag == Unwrap(tile.invalidation_reason).tag
         IN  CASE tag = "FractionalOffset" -> Css("CSS_FRACTIONAL_OFFSET")
               [] tag = "BackgroundColor" -> Css("CSS_BACKGROUND_COLOR")
               [] tag = "SurfaceOpacityChanged" -> Css("CSS_SURFACE_OPACITY_CHANNEL")
               [] tag = "NoTexture" -> Css("CSS_NO_TEXTURE")
               [] tag = "NoSurface" -> Css("CSS_NO_SURFACE")
               [] tag = "PrimCount" -> Css("CSS_PRIM_COUNT")
               [] tag = "CompositorKindChanged" -> Css("CSS_COMPOSITOR_KIND_CHANGED")
               [] tag = "Content" -> Css("CSS_CONTENT")
               [] tag = "ValidRectChanged" -> Css("CSS_VALID_RECT_CHANGED")
               [] tag = "ScaleChanged" -> Css("CSS_SCALE_CHANGED")

\* let tile_style = format!("{}stroke:none;", tile_fill);
TileStyle(tile, slice) == [fill |-> TileFill(tile, slice), stroke |-> "stroke:none;"]

---------------------------------------------------------------------------
(* tile_to_svg: the tooltip title *)

\* A title only for a tile that has a predecessor.
TileTitleNeedsPrev(key, tile, slice, prev) ==
    IF IsSome(tile.invalidation_reason) /\ IsSome(prev)
    THEN <<[t |-> "<title>slice {} tile ({},{}) - {:?}</title>",
            slice |-> slice.tile_cache.slice,
            x |-> key.x,
            y |-> key.y,
            reason |-> tile.invalidation_reason]>>
    ELSE <<>>

\* The <title> of the hit-test rectangle: String::new() is the empty
\* sequence.
TileTitle(key, tile, slice, prev) ==
    IF IsSome(tile.invalidation_reason)
    THEN <<[t |-> "<title>slice {} tile ({},{}) - {:?}</title>",
            slice |-> slice.tile_cache.slice,
            x |-> key.x,
            y |-> key.y,
            reason |-> tile.invalidation_reason]>>
    ELSE <<>>

---------------------------------------------------------------------------
(* tile_to_svg: the invalidation report of one tile *)

\* itemuid_to_string.get(i).unwrap_or(&String::new())
ItemString(map, i) == IF i \in DOMAIN map THEN map[i] ELSE ""

\* "<li>" + uid + "..." + item string + "</li>\n"
ListItem(map, i) == [t |-> "<li>{}...{}</li>", uid |-> i, item |-> ItemString(map, i)]

\* haystack.contains(i)
Contains(haystack, i) == \E k \in 1..Len(haystack) : haystack[k] = i

\* list.iter().filter(|i| !other.contains(i)).fold(String::new(), ..),
\* from element k on.
RECURSIVE DiffFold(_, _, _, _, _)
DiffFold(list, other, map, k, acc) ==
    IF k > Len(list)
    THEN acc
    ELSE IF ~Contains(other, list[k])
         THEN DiffFold(list, other, map, k + 1, acc \o <<ListItem(map, list[k])>>)
         ELSE DiffFold(list, other, map, k + 1, acc)

\* The difference taken the wrong way round.
DiffListSwapped(list, other, map) == DiffFold(other, list, map, 1, <<>>)

\* The <li> lines of the elements of list that other does not contain.
DiffList(list, other, map) == DiffFold(list, other, map, 1, <<>>)

\* The PrimCount arm: None when one of the two unwrap() calls panics.
PrimCountReport(reason, map) ==
    IF reason.old = None \/ reason.new = None
    THEN None
    ELSE LET old == Unwrap(reason.old)
             new == Unwrap(reason.new)
         IN  Some(<<[t |-> "<b>PrimCount</b> changed from {} to {}: removed, added",
                     old_len |-> Len(old),
                     new_len |-> Len(new),
                     removed |-> DiffList(old, new, map),
                     added |-> DiffList(new, old, map)]>>)

\* A comparison that looks at the min corner only.
ClipBoxMinDiffers(a, b) ==
    \/ a.min.x # b.min.x
    \/ a.min.y # b.min.y

\* old.prim_clip_box != new.prim_clip_box: the derived comparison of the
\* two corners, component by component.
ClipBoxDiffers(a, b) ==
    \/ a.min.x # b.min.x
    \/ a.min.y # b.min.y
    \/ a.max.x # b.max.x
    \/ a.max.y # b.max.y

\* The changes String of the same-uid arm.
DescriptorChanges(old, new) ==
    IF ClipBoxDiffers(old.prim_clip_box, new.prim_clip_box)
    THEN <<[t |-> "<li><b>prim_clip_rect</b> changed from {},{} -> {},{} to {},{} -> {},{}</li>",
            from |-> old.prim_clip_box,
            to |-> new.prim_clip_box]>>
    ELSE <<>>

\* Some(PrimitiveCompareResultDetail::Descriptor { old, new })
DescriptorReport(old, new, map) ==
    IF old.prim_uid = new.prim_uid
    THEN <<[t |-> "<b>Content: Descriptor</b> changed for uid {}<br/>",
            uid |-> old.prim_uid],
           [t |-> "<ul>{}<li>Item: {}</li></ul>",
            changes |-> DescriptorChanges(old, new),
            item |-> ItemString(map, old.prim_uid)]>>
    ELSE <<[t |-> "<b>Content: Descriptor</b> changed; old uid {}, new uid {}:<br/>",
            old_uid |-> old.prim_uid,
            new_uid |-> new.prim_uid],
           [t |-> "old:<ul><li>Desc: {:?}</li><li>Item: {}</li></ul>",
            desc |-> old,
            item |-> ItemString(map, old.prim_uid)],
           [t |-> "new:<ul><li>Desc: {:?}</li><li>Item: {}</li></ul>",
            desc |-> new,
            item |-> ItemString(map, new.prim_uid)]>>

\* format!("{:?}", reason)
DebugDump(value) == [t |-> "{:?}", value |-> value]

\* Some(PrimitiveCompareResultDetail::Clip { detail })
ClipReport(detail, map) ==
    CASE detail.tag = "Count" ->
           <<[t |-> "<b>Content: Clip</b> count changed from {} to {}<br/>",
              prev_count |-> detail.prev_count,
              curr_count |-> detail.curr_count]>>
      [] detail.tag = "NotEqual" ->
           <<[t |-> "<b>Content: Clip</b> ItemUids changed from {} to {}:<br/>",
              prev |-> detail.prev,
              curr |-> detail.curr],
             [t |-> "old:<ul><li>{}</li></ul>", item |-> ItemString(map, detail.prev)],
             [t |-> "new:<ul><li>{}</li></ul>", item |-> ItemString(map, detail.curr)]>>
      [] OTHER -> <<DebugDump(detail)>>

\* InvalidationReason::Content { prim_compare_result, prim_compare_result_detail }
ContentReport(reason, map) ==
    LET d == reason.prim_compare_result_detail
    IN  IF IsSome(d) /\ Unwrap(d).tag = "Descriptor"
        THEN DescriptorReport(Unwrap(d).old, Unwrap(d).new, map)
        ELSE IF IsSome(d) /\ Unwrap(d).tag = "Clip"
             THEN ClipReport(Unwrap(d).detail, map)
             ELSE <<DebugDump(d)>>

\* to_str of the BackgroundColor arm
ColorToStr(c) ==
    IF IsSome(c)
    THEN [t |-> "({},{},{},{})", color |-> c]
    ELSE [t |-> "none", color |-> None]

\* match reason { .. }: what the arm of the reason pushes, None when the arm
\* panics.
ReasonReport(reason, map) ==
    CASE reason.tag = "FractionalOffset" ->
           Some(<<[t |-> "<b>FractionalOffset</b> changed from ({},{}) to ({},{})",
                   from |-> reason.old_offset,
                   to |-> reason.new_offset]>>)
      [] reason.tag = "BackgroundColor" ->
           Some(<<[t |-> "<b>BackGroundColor</b> changed from {} to {}",
                   from |-> ColorToStr(reason.old_color),
                   to |-> ColorToStr(reason.new_color)]>>)
      [] reason.tag = "SurfaceOpacityChanged" ->
           Some(<<[t |-> "<b>SurfaceOpacityChanged</b> changed from {} to {}",
                   from |-> ~reason.became_opaque,
                   to |-> reason.became_opaque]>>)
      [] reason.tag = "PrimCount" -> PrimCountReport(reason, map)
      [] reason.tag = "Content" -> Some(ContentReport(reason, map))
      [] OTHER -> Some(<<DebugDump(reason)>>)

\* The subheader that opens a tile's entry of the report.
Subheader(key, slice) ==
    [t |-> "<div class=subheader>slice {} key ({},{})</div><div class=data>",
     slice |-> slice.tile_cache.slice,
     x |-> key.x,
     y |-> key.y]

DataClose == [t |-> "</div>"]

\* An entry for every tile, an empty one for a tile without reason.
TileReportEveryTile(key, tile, slice, prev, map, report) ==
    LET body == IF tile.invalidation_reason = None
                THEN Some(<<>>)
                ELSE ReasonReport(Unwrap(tile.invalidation_reason), map)
        opened == report \o <<Subheader(key, slice)>>
    IN  IF IsSome(body)
        THEN [ok |-> TRUE, report |-> opened \o Unwrap(body) \o <<DataClose>>]
        ELSE [ok |-> FALSE, report |-> opened]

\* if let Some(reason) = &tile.invalidation_reason { .. }: the report after
\* the block, and whether the block ran to its end.
TileReport(key, tile, slice, prev, map, report) ==
    IF tile.invalidation_reason = None
    THEN [ok |-> TRUE, report |-> report]
    ELSE LET body == ReasonReport(Unwrap(tile.invalidation_reason), map)
             opened == report \o <<Subheader(key, slice)>>
         IN  IF IsSome(body)
             THEN [ok |-> TRUE, report |-> opened \o Unwrap(body) \o <<DataClose>>]
             ELSE [ok |-> FALSE, report |-> opened]

---------------------------------------------------------------------------
(* tile_to_svg *)

TileComment(key) == [t |-> "<!-- tile key {},{} ; -->", x |-> key.x, y |-> key.y]

\* The filled rectangle and the nearly invisible one that carries the title.
TileRects(key, tile, slice, prev, tile_stroke, settings) ==
    LET x == tile.rect.origin.x * settings.scale + settings.x
        y == tile.rect.origin.y * settings.scale + settings.y
        width == tile.rect.size.width * settings.scale
        height == tile.rect.size.height * settings.scale
    IN  <<[t |-> "<rect x y width height style></rect>",
           x |-> x, y |-> y, width |-> width, height |-> height,
           style |-> TileStyle(tile, slice)],
          [t |-> "<rect x y width height style=fill-opacity:0.001;>{}</rect>",
           x |-> x, y |-> y, width |-> width, height |-> height,
           stroke |-> tile_stroke,
           title |-> TileTitle(key, tile, slice, prev)]>>

\* tile_to_svg(key, tile, slice, prev_tile, itemuid_to_string, tile_stroke, ..,
\* invalidation_report, .., svg_settings): [ok, svg, report], svg being the
\* returned String and report the invalidation report after the call.
TileToSvg(key, tile, slice, prev, map, tile_stroke, report, settings) ==
    LET rep == TileReport(key, tile, slice, prev, map, report)
    IN  IF rep.ok
        THEN [ok |-> TRUE,
              svg |-> <<TileComment(key)>>
                      \o TileRects(key, tile, slice, prev, tile_stroke, settings),
              report |-> rep.report]
        ELSE [ok |-> FALSE, svg |-> <<>>, report |-> rep.report]

---------------------------------------------------------------------------
(* slices_to_svg *)

\* svg_width and svg_height, which slices_to_svg only prints.
SvgSize == [width |-> 8, height |-> 6]

ReportHeader == [t |-> "<div class=header>Invalidation</div>"]

SliceReportOpen(tile_cache) ==
    [t |-> "<div id=invalidation_slice{}>", slice |-> tile_cache.slice]

SliceReportClose == [t |-> "</div>"]

\* "\n<g id=\"tile_slice{}_everything\">" and the comment that follows it
SliceGroupOpen(tile_cache) ==
    <<[t |-> "<g id=tile_slice{}_everything>", slice |-> tile_cache.slice],
      [t |-> "<!-- tile_cache slice {} -->", slice |-> tile_cache.slice]>>

SliceGroupClose == [t |-> "</g>"]

\* The search without its break: the last match wins.
RECURSIVE PrevSearchNoBreak(_, _, _)
PrevSearchNoBreak(prev, tile_cache, k) ==
    IF k > Len(prev)
    THEN None
    ELSE LET later == PrevSearchNoBreak(prev, tile_cache, k + 1)
         IN  IF IsSome(later)
             THEN later
             ELSE IF prev[k].tile_cache.slice = tile_cache.slice
                  THEN Some(prev[k])
                  ELSE None

\* The predecessor search: the first element of prev_slices, from position k
\* on, whose slice index is that of tile_cache.
RECURSIVE PrevSearch(_, _, _)
PrevSearch(prev, tile_cache, k) ==
    IF k > Len(prev)
    THEN None
    ELSE IF prev[k].tile_cache.slice = tile_cache.slice
         THEN Some(prev[k])
         ELSE PrevSearch(prev, tile_cache, k + 1)

\* let mut prev_slice = None; if let Some(prev) = &prev_slices { .. }
FindPrevSlice(prevs, tile_cache) ==
    IF IsSome(prevs) THEN PrevSearch(Unwrap(prevs), tile_cache, 1) ELSE None

\* tiles.get(key) on the tile map, a sequence of [key, tile] with no key twice
TilesGet(tiles, key) ==
    IF \E k \in 1..Len(tiles) : tiles[k].key = key
    THEN Some(tiles[CHOOSE k \in 1..Len(tiles) : tiles[k].key = key].tile)
    ELSE None

\* let mut prev_tile = None; if let Some(prev) = prev_slice { .. }
FindPrevTile(pslice, key) ==
    IF IsSome(pslice) THEN TilesGet(Unwrap(pslice).tile_cache.tiles, key) ELSE None

\* The index of the slice at hand, whatever the maximum was.
NewMaxSliceIndexLatest(tile_cache, max) == tile_cache.slice

\* if tile_cache.slice > *max_slice_index { tile_cache.slice } else { *max_slice_index }
NewMaxSliceIndex(tile_cache, max) ==
    IF tile_cache.slice > max THEN tile_cache.slice ELSE max

\* The SVG document that slices_to_svg returns around svg.
SvgDocument(body) ==
    <<[t |-> "<?xml-stylesheet href=tilecache_base.css ?><?xml-stylesheet href=tilecache.css ?>"],
      [t |-> "<svg width={} height={} >", width |-> SvgSize.width, height |-> SvgSize.height],
      [t |-> "<rect fill=black width=100% height=100%/>"]>>
    \o body \o <<[t |-> "</svg>"]>>

\* The slice and the tile the loops stand at.
CurSlice == slices[si]

CurEntry == CurSlice.tile_cache.tiles[ti + 1]

\* for slice in slices { .. }: lines 332-356, up to the tile loop.
BeginSlice ==
    /\ pc = "slices"
    /\ si < Len(slices)
    /\ LET tile_cache == slices[si + 1].tile_cache
       IN  /\ max_slice_index' = NewMaxSliceIndex(tile_cache, max_slice_index)
           /\ invalidation_report' =
                  invalidation_report \o <<SliceReportOpen(tile_cache)>>
           /\ svg' = svg \o SliceGroupOpen(tile_cache)
           /\ prev_slice' = FindPrevSlice(prev_slices, tile_cache)
    /\ si' = si + 1
    /\ ti' = 0
    /\ prev_tile' = None
    /\ pc' = "tiles"
    /\ UNCHANGED <<slices, prev_slices, itemuid_to_string, result,
                   flat_vars, html_vars>>

\* for (key, tile) in &tile_cache.tiles { .. }: one tile, tile_to_svg returning.
RenderTile ==
    /\ pc = "tiles"
    /\ ti < Len(CurSlice.tile_cache.tiles)
    /\ LET prev == FindPrevTile(prev_slice, CurEntry.key)
           r == TileToSvg(CurEntry.key, CurEntry.tile, CurSlice, prev,
                          itemuid_to_string, "stroke:none;",
                          invalidation_report, SvgSettings)
       IN  /\ r.ok
           /\ prev_tile' = prev
           /\ svg' = svg \o r.svg
           /\ invalidation_report' = r.report
    /\ ti' = ti + 1
    /\ UNCHANGED <<slices, prev_slices, itemuid_to_string, max_slice_index,
                   pc, si, prev_slice, result, flat_vars, html_vars>>

\* One tile, tile_to_svg panicking: slices_to_svg unwinds and returns nothing.
RenderTilePanics ==
    /\ pc = "tiles"
    /\ ti < Len(CurSlice.tile_cache.tiles)
    /\ LET prev == FindPrevTile(prev_slice, CurEntry.key)
           r == TileToSvg(CurEntry.key, CurEntry.tile, CurSlice, prev,
                          itemuid_to_string, "stroke:none;",
                          invalidation_report, SvgSettings)
       IN  /\ ~r.ok
           /\ prev_tile' = prev
           /\ invalidation_report' = r.report
    /\ pc' = "panicked"
    /\ UNCHANGED <<slices, prev_slices, itemuid_to_string, max_slice_index,
                   svg, si, ti, prev_slice, result, flat_vars, html_vars>>

\* The end of a slice's iteration without the closing </div> of the report.
EndSliceReportLeftOpen ==
    /\ pc = "tiles"
    /\ ti = Len(CurSlice.tile_cache.tiles)
    /\ svg' = svg \o <<SliceGroupClose>>
    /\ pc' = "slices"
    /\ UNCHANGED <<slices, prev_slices, itemuid_to_string, max_slice_index,
                   invalidation_report, si, ti, prev_slice, prev_tile, result,
                   flat_vars, html_vars>>

\* The end of a slice's iteration: lines 371-373.
EndSlice ==
    /\ pc = "tiles"
    /\ ti = Len(CurSlice.tile_cache.tiles)
    /\ svg' = svg \o <<SliceGroupClose>>
    /\ invalidation_report' = invalidation_report \o <<SliceReportClose>>
    /\ pc' = "slices"
    /\ UNCHANGED <<slices, prev_slices, itemuid_to_string, max_slice_index,
                   si, ti, prev_slice, prev_tile, result, flat_vars, html_vars>>

\* The return of slices_to_svg: lines 376-387.
ReturnSvg ==
    /\ pc = "slices"
    /\ si = Len(slices)
    /\ result' = Some([svg |-> SvgDocument(svg), report |-> invalidation_report])
    /\ pc' = "done"
    /\ UNCHANGED <<slices, prev_slices, itemuid_to_string, max_slice_index,
                   svg, invalidation_report, si, ti, prev_slice, prev_tile,
                   flat_vars, html_vars>>

\* The locals of slices_to_svg on entry: lines 328-329.
RenderEntry ==
    /\ svg = <<>>
    /\ invalidation_report = <<ReportHeader>>
    /\ pc = "slices"
    /\ si = 0
    /\ ti = 0
    /\ prev_slice = None
    /\ prev_tile = None
    /\ result = None

---------------------------------------------------------------------------
(* Inputs of slices_to_svg *)

\* The most slices in a sequence, and the most tiles in all of them together.
MaxSlices == 2

MaxTiles == 2

\* The longest identifier list of a PrimCount reason.
MaxList == 3

SliceIndices == {0, 1}

Keys == {Point(0, 0), Point(1, 0)}

Uids == {1, 2, 3}

\* ColorF, each component in halves: red, a grey, and one out of [0, 1].
Red == [r |-> 2, g |-> 0, b |-> 0, a |-> 2]

Grey == [r |-> 1, g |-> 1, b |-> 1, a |-> 2]

Vivid == [r |-> 3, g |-> -1, b |-> 2, a |-> 1]

OptColors == {None, Some(Red), Some(Grey), Some(Vivid)}

\* The display strings: a map that knows uids 1 and 2, and the empty map.
ItemMaps == {[i \in {1, 2} |-> IF i = 1 THEN "rect" ELSE "text"],
             [i \in {} |-> ""]}

\* A tile's rectangle, here the cell of its key.
CellRect(key) ==
    [origin |-> Point(key.x * 4, key.y * 4), size |-> [width |-> 4, height |-> 4]]

Tile(key, reason, bg) ==
    [rect |-> CellRect(key), invalidation_reason |-> reason, background_color |-> bg]

SliceOf(index, tiles, bg) ==
    [tile_cache |-> [slice |-> index, tiles |-> tiles, background_color |-> bg]]

Reason(tag) == [tag |-> tag]

PrimCount(old, new) == [tag |-> "PrimCount", old |-> old, new |-> new]

\* Option<Vec<ItemUid>>
OptLists == {None} \cup {Some(l) : l \in SeqUpTo(Uids, MaxList)}

ClipBoxes ==
    {[min |-> Point(0, 0), max |-> Point(x, y)] : x \in {1, 2}, y \in {1, 2}}
    \cup {[min |-> Point(1, 0), max |-> Point(2, 2)],
          [min |-> Point(0, 1), max |-> Point(2, 2)]}

\* PrimitiveDescriptor: the two fields tile_to_svg reads
Descriptors == [prim_uid : {1, 3}, prim_clip_box : ClipBoxes]

Details ==
    {None,
     Some([tag |-> "Clip", detail |-> [tag |-> "Equal"]]),
     Some([tag |-> "Clip", detail |-> [tag |-> "Count", prev_count |-> 1, curr_count |-> 2]])}
    \cup {Some([tag |-> "Clip", detail |-> [tag |-> "NotEqual", prev |-> p, curr |-> c]]) :
            p \in {1, 3}, c \in {2, 3}}
    \cup {Some([tag |-> "Descriptor", old |-> o, new |-> n]) :
            o \in Descriptors, n \in Descriptors}

\* Every variant of InvalidationReason, with its payloads.
AllReasons ==
    {Reason("NoTexture"), Reason("NoSurface"), Reason("CompositorKindChanged"),
     Reason("ValidRectChanged"), Reason("ScaleChanged")}
    \cup {[tag |-> "FractionalOffset", old_offset |-> o, new_offset |-> n] :
            o \in {Point(0, 0)}, n \in {Point(0, 0), Point(1, 0)}}
    \cup {[tag |-> "BackgroundColor", old_color |-> o, new_color |-> n] :
            o \in {None, Some(Red)}, n \in {None, Some(Grey)}}
    \cup {[tag |-> "SurfaceOpacityChanged", became_opaque |-> b] : b \in BOOLEAN}
    \cup {PrimCount(o, n) : o \in OptLists, n \in OptLists}
    \cup {[tag |-> "Content", prim_compare_result |-> "Descriptor",
           prim_compare_result_detail |-> d] : d \in Details}

\* The reasons of the tiles of a whole render: none, one without payload,
\* and a PrimCount whose old list is absent.
RenderReasons ==
    {None,
     Some(Reason("ScaleChanged")),
     Some(PrimCount(None, Some(<<2>>)))}

\* The pairs of entries that are no tile map: the same key twice.
KeyTwice ==
    {<<[key |-> k, tile |-> Tile(k, r1, None)],
       [key |-> k, tile |-> Tile(k, r2, None)]>> :
       k \in Keys, r1 \in RenderReasons, r2 \in RenderReasons}

\* The tile maps of at most n tiles, in every iteration order.
TileMaps(n) ==
    {<<>>}
    \cup (IF n >= 1
          THEN {<<[key |-> k, tile |-> Tile(k, r, None)]>> :
                  k \in Keys, r \in RenderReasons}
          ELSE {})
    \cup (IF n >= 2
          THEN {<<[key |-> k1, tile |-> Tile(k1, r1, None)],
                  [key |-> k2, tile |-> Tile(k2, r2, None)]>> :
                  k1 \in Keys, k2 \in Keys,
                  r1 \in RenderReasons, r2 \in RenderReasons} \ KeyTwice
          ELSE {})

\* The sequences of at most s slices holding at most n tiles together.
RECURSIVE SlicesUpTo(_, _)
SlicesUpTo(s, n) ==
    IF s <= 0
    THEN {<<>>}
    ELSE {<<>>} \cup
         UNION {{<<SliceOf(i, m, None)>> \o rest :
                   rest \in SlicesUpTo(s - 1, n - Len(m))} :
                i \in SliceIndices, m \in TileMaps(n)}

PrevTile(key) == [key |-> key, tile |-> Tile(key, None, Some(Grey))]

\* previous_slices: absent, one predecessor of slice 0 holding the tile of
\* key (0,0), or predecessors with a repeated index.
PrevChoices ==
    {None,
     Some(<<SliceOf(0, <<PrevTile(Point(0, 0))>>, None)>>),
     Some(<<SliceOf(1, <<>>, None),
            SliceOf(0, <<PrevTile(Point(1, 0))>>, None),
            SliceOf(1, <<PrevTile(Point(1, 0)), PrevTile(Point(0, 0))>>, None)>>)}

RenderInputs ==
    /\ slices \in SlicesUpTo(MaxSlices, MaxTiles)
    /\ prev_slices \in PrevChoices
    /\ itemuid_to_string \in {m \in ItemMaps : DOMAIN m # {}}
    /\ max_slice_index \in {0, 1}
    /\ RenderEntry

\* One slice holding one tile, with every reason and every background.
TileInputs ==
    /\ \E r \in {None} \cup {Some(x) : x \in AllReasons} :
       \E tbg \in OptColors, sbg \in OptColors :
          /\ r # None => tbg = None /\ sbg = None
          /\ slices = <<SliceOf(1, <<[key |-> Point(1, 0),
                                      tile |-> Tile(Point(1, 0), r, tbg)]>>, sbg)>>
    /\ prev_slices = None
    /\ itemuid_to_string \in ItemMaps
    /\ max_slice_index = 0
    /\ RenderEntry

IdleRender ==
    /\ slices = <<>>
    /\ prev_slices = None
    /\ itemuid_to_string = [i \in {} |-> ""]
    /\ max_slice_index = 0
    /\ svg = <<>>
    /\ invalidation_report = <<>>
    /\ pc = "idle"
    /\ si = 0
    /\ ti = 0
    /\ prev_slice = None
    /\ prev_tile = None
    /\ result = None

NextRender ==
    \/ BeginSlice
    \/ RenderTile
    \/ RenderTilePanics
    \/ EndSlice
    \/ ReturnSvg

---------------------------------------------------------------------------
(* updatelist_to_html *)

\* The categories enumerate_interners! hands to the macro, in its order.
Interners == <<"clip", "prim">>

HtmlHead == [t |-> "<!DOCTYPE html><html><head>..</head><body><div class=datasheet>"]

InterningHeader == [t |-> "<div class=header>Interning</div>"]

CategoryOpen(name) ==
    [t |-> "<div class=subheader>{}</div><div class=intern data>", name |-> name]

CategoryClose == [t |-> "</div><br/>"]

HtmlTail == [t |-> "</div> </body> </html>"]

InsertLine(insertion) ==
    [t |-> "<div class=insert><b>{}</b> ({:?})</div>",
     uid |-> insertion.uid, value |-> insertion.value]

RemoveLine(removal) ==
    [t |-> "<div class=remove><b>{}</b></div>", uid |-> removal.uid]

\* for insertion in &list.insertions { .. }, from element k on
RECURSIVE InsertLines(_, _)
InsertLines(insertions, k) ==
    IF k > Len(insertions)
    THEN <<>>
    ELSE <<InsertLine(insertions[k])>> \o InsertLines(insertions, k + 1)

\* for removal in &list.removals { .. }, from element k on
RECURSIVE RemoveLines(_, _)
RemoveLines(removals, k) ==
    IF k > Len(removals)
    THEN <<>>
    ELSE <<RemoveLine(removals[k])>> \o RemoveLines(removals, k + 1)

\* The two inner loops in the other order.
BatchLinesRemovalsFirst(list) ==
    RemoveLines(list.removals, 1) \o InsertLines(list.insertions, 1)

\* The body of `for list in &update_lists.$name.1`
BatchLines(list) == InsertLines(list.insertions, 1) \o RemoveLines(list.removals, 1)

\* for list in &update_lists.$name.1 { .. }, from batch k on
RECURSIVE CategoryLines(_, _)
CategoryLines(lists, k) ==
    IF k > Len(lists)
    THEN <<>>
    ELSE BatchLines(lists[k]) \o CategoryLines(lists, k + 1)

\* One repetition of the macro body, for category name.
CategoryBlock(name, lists) ==
    <<CategoryOpen(name)>> \o CategoryLines(lists, 1) \o <<CategoryClose>>

\* Lines 395-405: the document head, the report handed in, the heading.
HtmlBegin ==
    /\ html_pc = "entry"
    /\ html' = <<HtmlHead>> \o report_arg \o <<InterningHeader>>
    /\ ci' = 0
    /\ html_pc' = "categories"
    /\ UNCHANGED <<update_lists, report_arg, flat_vars, render_vars>>

\* Lines 407-421 for the next category.
HtmlCategory ==
    /\ html_pc = "categories"
    /\ ci < Len(Interners)
    /\ html' = html \o CategoryBlock(Interners[ci + 1], update_lists[Interners[ci + 1]])
    /\ ci' = ci + 1
    /\ UNCHANGED <<update_lists, report_arg, html_pc, flat_vars, render_vars>>

\* Lines 423-424.
HtmlReturn ==
    /\ html_pc = "categories"
    /\ ci = Len(Interners)
    /\ html' = html \o <<HtmlTail>>
    /\ html_pc' = "done"
    /\ UNCHANGED <<update_lists, report_arg, ci, flat_vars, render_vars>>

NextHtml ==
    \/ HtmlBegin
    \/ HtmlCategory
    \/ HtmlReturn

---------------------------------------------------------------------------
(* Inputs of updatelist_to_html *)

\* The most batches in all categories together.
MaxBatches == 3

Insertion(uid, value) == [uid |-> uid, value |-> value]

Removal(uid) == [uid |-> uid]

InsertionLists ==
    {<<>>, <<Insertion(1, "a")>>, <<Insertion(2, "b"), Insertion(1, "a")>>}

RemovalLists == {<<>>, <<Removal(2)>>, <<Removal(1), Removal(2)>>}

Batches == [insertions : InsertionLists, removals : RemovalLists]

\* For the categories from position k on, the update lists that hold at most
\* n batches together.
RECURSIVE UpdateListsUpTo(_, _)
UpdateListsUpTo(k, n) ==
    IF k > Len(Interners)
    THEN {[c \in {} |-> <<>>]}
    ELSE UNION {{(Interners[k] :> l) @@ rest :
                   rest \in UpdateListsUpTo(k + 1, n - Len(l))} :
                l \in SeqUpTo(Batches, n)}

ReportArgs ==
    {<<ReportHeader>>,
     <<ReportHeader, SliceReportOpen([slice |-> 0]), SliceReportClose>>}

HtmlInputs ==
    /\ update_lists \in UpdateListsUpTo(1, MaxBatches)
    /\ report_arg \in ReportArgs
    /\ html = <<>>
    /\ html_pc = "entry"
    /\ ci = 0

IdleHtml ==
    /\ update_lists = [c \in {} |-> <<>>]
    /\ report_arg = <<>>
    /\ html = <<>>
    /\ html_pc = "idle"
    /\ ci = 0

---------------------------------------------------------------------------
(* Specifications *)

NextFlat ==
    \/ FlattenReturns
    \/ FlattenPanics

\* slices_to_svg over whole slice sequences
Init == IdleFlat /\ RenderInputs /\ IdleHtml

Next == NextRender

Spec == Init /\ [][Next]_vars

\* slices_to_svg over one tile of every kind
InitTile == IdleFlat /\ TileInputs /\ IdleHtml

SpecTile == InitTile /\ [][NextRender]_vars

\* tile_node_to_svg
InitFlat == FlatInputs /\ IdleRender /\ IdleHtml

SpecFlat == InitFlat /\ [][NextFlat]_vars

\* updatelist_to_html
InitHtml == IdleFlat /\ IdleRender /\ HtmlInputs

SpecHtml == InitHtml /\ [][NextHtml]_vars

---------------------------------------------------------------------------
(* Properties of tile_node_to_svg, under SpecFlat *)

\* The concatenation of a sequence of sequences.
RECURSIVE Concat(_)
Concat(ss) == IF ss = <<>> THEN <<>> ELSE ss[1] \o Concat(Tail(ss))

\* The leaves of a tree, left to right.
RECURSIVE LeavesOf(_)
LeavesOf(n) ==
    IF n.kind = "Leaf"
    THEN <<n>>
    ELSE Concat([k \in 1..Len(n.children) |-> LeavesOf(n.children[k])])

Projects(leaf) == IsSome(OuterTransformedRect(transform, ToRect(leaf.rect)))

\* The fragment of a leaf that projects.
FragmentOf(leaf) ==
    LeafFragment(Unwrap(OuterTransformedRect(transform, ToRect(leaf.rect))),
                 SvgSettings)

\* C1: what tile_node_to_svg returns is one rectangle fragment for a Leaf
\* and, for an Interior node, the concatenation of its children's outputs in
\* child order (nothing for no children); so the fragments are those of the
\* tree's leaves, one each, left to right.
C1_FlattenConcatenatesLeaves ==
    flat_pc = "returned" =>
        /\ node.kind = "Leaf" => Len(flat_out) = 1
        /\ node.kind = "Node" =>
              flat_out = Concat([k \in 1..Len(node.children) |->
                                    TileNodeToSvg(node.children[k], transform,
                                                  SvgSettings).out])
        /\ node.kind = "Node" /\ node.children = <<>> => flat_out = <<>>
        /\ Len(flat_out) = Len(LeavesOf(node))
        /\ \A k \in 1..Len(flat_out) : flat_out[k] = FragmentOf(LeavesOf(node)[k])

\* A returned call on an interior node that holds two leaves with different
\* fragments and an interior node without children.
C1_Witness ==
    /\ flat_pc = "returned"
    /\ node.kind = "Node"
    /\ Len(node.children) = 3
    /\ \E k \in 1..3 : node.children[k] = Interior(InteriorBox, <<>>)
    /\ Len(flat_out) = 2
    /\ flat_out[1] # flat_out[2]

\* C9: a leaf whose rectangle does not project is skipped: the call returns,
\* and what it returns is the fragments of the leaves that do project, in
\* order.
C9_ProjectionFailureSkipsLeaf ==
    flat_pc # "call" =>
        /\ flat_pc = "returned"
        /\ flat_out = Concat([k \in 1..Len(LeavesOf(node)) |->
                                 IF Projects(LeavesOf(node)[k])
                                 THEN <<FragmentOf(LeavesOf(node)[k])>>
                                 ELSE <<>>])

---------------------------------------------------------------------------
(* Properties of tile_to_svg, read off the state after a tile is rendered *)

\* tile_to_svg has just returned for tile ti of the current slice.
JustRendered == pc = "tiles" /\ ti >= 1

RenderedEntry == CurSlice.tile_cache.tiles[ti]

RenderedReason == Unwrap(RenderedEntry.tile.invalidation_reason)

\* The two rectangles of the tile just rendered: the last two pieces of svg.
RenderedFilledRect == svg[Len(svg) - 1]

RenderedHitRect == svg[Len(svg)]

IsSubheader(tok) == tok.t = Subheader(Point(0, 0), SliceOf(0, <<>>, None)).t

\* Where the last tile entry of the report starts.
LastSubheaderPos ==
    CHOOSE p \in 1..Len(invalidation_report) :
        /\ IsSubheader(invalidation_report[p])
        /\ \A q \in (p + 1)..Len(invalidation_report) :
              ~IsSubheader(invalidation_report[q])

\* The pieces of the last tile entry, between its subheader and its </div>.
LastEntryBody ==
    SubSeq(invalidation_report, LastSubheaderPos + 1, Len(invalidation_report) - 1)

UidsOf(items) == [k \in 1..Len(items) |-> items[k].uid]

\* C2: for a PrimCount reason with both lists, the entry lists as removed the
\* elements of old that new does not hold, in old's order, as added the
\* elements of new that old does not hold, in new's order, and prints the
\* lengths of old and new.
C2_PrimCountDiff ==
    (/\ JustRendered
     /\ IsSome(RenderedEntry.tile.invalidation_reason)
     /\ RenderedReason.tag = "PrimCount"
     /\ IsSome(RenderedReason.old)
     /\ IsSome(RenderedReason.new))
    => LET old == Unwrap(RenderedReason.old)
           new == Unwrap(RenderedReason.new)
           line == LastEntryBody[1]
       IN  /\ Len(LastEntryBody) = 1
           /\ UidsOf(line.removed) = SelectSeq(old, LAMBDA i : i \notin Range(new))
           /\ UidsOf(line.added) = SelectSeq(new, LAMBDA i : i \notin Range(old))
           /\ line.old_len = Len(old)
           /\ line.new_len = Len(new)

\* old = [1, 2, 1] and new = [2, 3]: 1 is removed twice, 3 is added.
C2_Witness ==
    /\ JustRendered
    /\ RenderedEntry.tile.invalidation_reason =
           Some(PrimCount(Some(<<1, 2, 1>>), Some(<<2, 3>>)))
    /\ UidsOf(LastEntryBody[1].removed) = <<1, 1>>
    /\ UidsOf(LastEntryBody[1].added) = <<3>>

\* The three channels (c * 255.0) as u8 of a colour.
Channels(color) == <<ColorToU8(color.r), ColorToU8(color.g), ColorToU8(color.b)>>

\* C3: a tile without reason is filled with its own background colour if it
\* has one, else with the slice's if that has one, else with "fill:none;";
\* a colour gives an rgb fill at opacity 0.3.
C3_BackgroundFallbackChain ==
    (JustRendered /\ RenderedEntry.tile.invalidation_reason = None)
    => LET own == RenderedEntry.tile.background_color
           fallback == CurSlice.tile_cache.background_color
           fill == RenderedFilledRect.style.fill
       IN  /\ IsSome(own) =>
                 /\ fill.t = "fill:rgb({},{},{});fill-opacity:0.3;"
                 /\ <<fill.r, fill.g, fill.b>> = Channels(Unwrap(own))
           /\ (own = None /\ IsSome(fallback)) =>
                 /\ fill.t = "fill:rgb({},{},{});fill-opacity:0.3;"
                 /\ <<fill.r, fill.g, fill.b>> = Channels(Unwrap(fallback))
           /\ (own = None /\ fallback = None) <=> fill = [t |-> "fill:none;"]

\* A red tile in a grey slice is filled red.
C3_Witness ==
    /\ JustRendered
    /\ RenderedEntry.tile.invalidation_reason = None
    /\ RenderedEntry.tile.background_color = Some(Red)
    /\ CurSlice.tile_cache.background_color = Some(Grey)
    /\ RenderedFilledRect.style.fill.r = 255
    /\ RenderedFilledRect.style.fill.g = 0

---------------------------------------------------------------------------
(* Properties of slices_to_svg, under Spec *)

\* The render has not panicked: svg and the report are those of the tiles
\* processed so far.
Rendering == pc \in {"slices", "tiles", "done"}

\* How many tiles of slice s have been rendered.
Processed(s) ==
    IF s < si THEN Len(slices[s].tile_cache.tiles)
    ELSE IF s = si THEN ti ELSE 0

\* The [key, tile] entries rendered so far, of slice s and of all slices.
ProcessedOf(s) == SubSeq(slices[s].tile_cache.tiles, 1, Processed(s))

ProcessedEntries == Concat([s \in 1..si |-> ProcessedOf(s)])

IsFilledRect(tok) == tok.t = "<rect x y width height style></rect>"

IsHitRect(tok) == tok.t = "<rect x y width height style=fill-opacity:0.001;>{}</rect>"

IsTileComment(tok) == tok.t = "<!-- tile key {},{} ; -->"

IsSliceOpen(tok) == tok.t = "<div id=invalidation_slice{}>"

IsGroupOpen(tok) == tok.t = "<g id=tile_slice{}_everything>"

IsReportHeader(tok) == tok.t = "<div class=header>Invalidation</div>"

\* The position of the n-th piece of seq that satisfies P.
NthPos(seq, P(_), n) ==
    CHOOSE p \in 1..Len(seq) :
        /\ P(seq[p])
        /\ Cardinality({q \in 1..p : P(seq[q])}) = n

CountOf(seq, P(_)) == Cardinality({q \in 1..Len(seq) : P(seq[q])})

\* The block of the s-th slice in seq: from its opening piece to the piece
\* before the next opening piece, or to the end.
BlockOf(seq, IsOpen(_), s) ==
    SubSeq(seq, NthPos(seq, IsOpen, s),
           IF s < CountOf(seq, IsOpen)
           THEN NthPos(seq, IsOpen, s + 1) - 1
           ELSE Len(seq))

ReportBlock(s) == BlockOf(invalidation_report, IsSliceOpen, s)

SvgBlock(s) == BlockOf(svg, IsGroupOpen, s)

KeyOf(tok) == Point(tok.x, tok.y)

\* The sub-entries of slice s's report block for key.
EntriesFor(s, key) ==
    SelectSeq(ReportBlock(s), LAMBDA tok : IsSubheader(tok) /\ KeyOf(tok) = key)

\* The sub-entries of the whole report labelled with a slice index and key.
EntriesLabelled(index, key) ==
    SelectSeq(invalidation_report,
              LAMBDA tok : IsSubheader(tok) /\ tok.slice = index /\ KeyOf(tok) = key)

\* C4 as claimed: a tile without same-keyed tile in the predecessor slice, or
\* without predecessor slice, gets no title and no report entry, whatever
\* its reason.
C4_NewTileNoTitleNoEntry ==
    (JustRendered /\ prev_tile = None)
    => /\ RenderedHitRect.title = <<>>
       /\ EntriesFor(si, RenderedEntry.key) = <<>>

\* C4 as amended: such a tile gets no title and no report entry exactly
\* when it has no reason; the predecessor is not consulted.
C4_NewTileTitleFollowsReason ==
    (JustRendered /\ prev_tile = None)
    => /\ RenderedHitRect.title = <<>>
             <=> RenderedEntry.tile.invalidation_reason = None
       /\ EntriesFor(si, RenderedEntry.key) = <<>>
             <=> RenderedEntry.tile.invalidation_reason = None

\* A tile with a reason whose predecessor slice exists and lacks its key.
C4_Witness ==
    /\ JustRendered
    /\ IsSome(prev_slice)
    /\ prev_tile = None
    /\ IsSome(RenderedEntry.tile.invalidation_reason)
    /\ RenderedHitRect.title # <<>>
    /\ Len(EntriesFor(si, RenderedEntry.key)) = 1

\* One filled rectangle directly followed by one hit-test rectangle per tile
\* rendered, the n-th hit-test rectangle titled exactly when the n-th tile
\* has a reason.
RectPairPerTile ==
    /\ CountOf(svg, IsFilledRect) = Len(ProcessedEntries)
    /\ CountOf(svg, IsHitRect) = Len(ProcessedEntries)
    /\ \A p \in 1..Len(svg) :
          /\ IsFilledRect(svg[p]) => p < Len(svg) /\ IsHitRect(svg[p + 1])
          /\ IsHitRect(svg[p]) => p > 1 /\ IsFilledRect(svg[p - 1])
    /\ \A n \in 1..Len(ProcessedEntries) :
          svg[NthPos(svg, IsHitRect, n)].title # <<>>
             <=> IsSome(ProcessedEntries[n].tile.invalidation_reason)

\* C5 as claimed: a rectangle pair per tile, titled exactly when the tile has
\* a reason, and the report holds exactly one sub-entry for the tile's slice
\* index and key exactly when the tile has a reason.
C5_PairAndEntryPerIndexAndKey ==
    Rendering =>
        /\ RectPairPerTile
        /\ \A s \in 1..si : \A k \in 1..Processed(s) :
              LET e == slices[s].tile_cache.tiles[k]
              IN  Len(EntriesLabelled(slices[s].tile_cache.slice, e.key)) = 1
                     <=> IsSome(e.tile.invalidation_reason)

\* C5 as amended: the sub-entry is counted in the block of the tile's own
\* slice: one, labelled with the slice's index, when the tile has a reason,
\* none when it has not.
C5_PairAndEntryPerTile ==
    Rendering =>
        /\ RectPairPerTile
        /\ \A s \in 1..si : \A k \in 1..Processed(s) :
              LET e == slices[s].tile_cache.tiles[k]
                  entries == EntriesFor(s, e.key)
              IN  /\ Len(entries) =
                        IF IsSome(e.tile.invalidation_reason) THEN 1 ELSE 0
                  /\ \A n \in 1..Len(entries) :
                        entries[n].slice = slices[s].tile_cache.slice

\* A finished render of two slices with the same index, each holding the
\* tile of the same key, one with a reason and one without.
C5_Witness ==
    /\ pc = "done"
    /\ Len(slices) = 2
    /\ slices[1].tile_cache.slice = slices[2].tile_cache.slice
    /\ Len(slices[1].tile_cache.tiles) = 1
    /\ Len(slices[2].tile_cache.tiles) = 1
    /\ slices[1].tile_cache.tiles[1].key = slices[2].tile_cache.tiles[1].key
    /\ slices[1].tile_cache.tiles[1].tile.invalidation_reason = None
    /\ IsSome(slices[2].tile_cache.tiles[1].tile.invalidation_reason)
    /\ CountOf(svg, IsHitRect) = 2
    /\ CountOf(invalidation_report, IsSubheader) = 1

\* How deep seq is nested after its first n pieces, Opens(tok) telling the
\* pieces that open an element and Closes(tok) those that close one.
RECURSIVE Depth(_, _, _, _)
Depth(seq, Opens(_), Closes(_), n) ==
    IF n = 0
    THEN 0
    ELSE Depth(seq, Opens, Closes, n - 1)
         + (IF Opens(seq[n]) THEN 1 ELSE 0)
         - (IF Closes(seq[n]) THEN 1 ELSE 0)

ReportOpens(tok) == IsSliceOpen(tok) \/ IsSubheader(tok)

ReportCloses(tok) == tok.t = "</div>"

SvgCloses(tok) == tok.t = "</g>"

\* Whether the loop is through with slice s.
SliceEnded(s) == s < si \/ (s = si /\ pc \in {"slices", "done"})

KeysOf(entries) == [k \in 1..Len(entries) |-> entries[k].key]

TokenKeys(toks) == [k \in 1..Len(toks) |-> KeyOf(toks[k])]

\* C6: the slice groups of svg and the slice blocks of the report follow the
\* order of the slices; a block is closed before the next is opened; the
\* fragments and report entries of a slice's tiles lie in that slice's
\* block, in the order of its tile map; the report starts with the one
\* "Invalidation" heading.
C6_BlocksFollowSliceOrder ==
    Rendering =>
        /\ invalidation_report[1] = ReportHeader
        /\ CountOf(invalidation_report, IsReportHeader) = 1
        /\ CountOf(invalidation_report, IsSliceOpen) = si
        /\ CountOf(svg, IsGroupOpen) = si
        /\ \A s \in 1..si :
              LET index == slices[s].tile_cache.slice
                  rpos == NthPos(invalidation_report, IsSliceOpen, s)
                  gpos == NthPos(svg, IsGroupOpen, s)
                  rblock == ReportBlock(s)
                  gblock == SvgBlock(s)
                  reasoned == SelectSeq(ProcessedOf(s),
                                 LAMBDA e : IsSome(e.tile.invalidation_reason))
              IN  /\ invalidation_report[rpos].slice = index
                  /\ svg[gpos].slice = index
                  \* nothing is open where the block opens
                  /\ Depth(invalidation_report, ReportOpens, ReportCloses, rpos - 1) = 0
                  /\ Depth(svg, IsGroupOpen, SvgCloses, gpos - 1) = 0
                  \* an ended slice's block ends with its closing piece
                  /\ SliceEnded(s) =>
                        /\ rblock[Len(rblock)] = SliceReportClose
                        /\ Depth(rblock, ReportOpens, ReportCloses, Len(rblock)) = 0
                        /\ gblock[Len(gblock)] = SliceGroupClose
                        /\ CountOf(gblock, SvgCloses) = 1
                  /\ ~SliceEnded(s) =>
                        /\ Depth(rblock, ReportOpens, ReportCloses, Len(rblock)) = 1
                        /\ CountOf(gblock, SvgCloses) = 0
                  \* the block holds the slice's tiles, in tile map order
                  /\ TokenKeys(SelectSeq(gblock, IsTileComment))
                        = KeysOf(ProcessedOf(s))
                  /\ CountOf(gblock, IsHitRect) = Processed(s)
                  /\ TokenKeys(SelectSeq(rblock, IsSubheader)) = KeysOf(reasoned)
                  /\ \A n \in 1..Len(rblock) :
                        IsSubheader(rblock[n]) => rblock[n].slice = index
        /\ pc = "done" =>
              /\ IsSome(result)
              /\ Unwrap(result).report = invalidation_report
              /\ SubSeq(Unwrap(result).svg, 4, Len(Unwrap(result).svg) - 1) = svg

\* A finished render of slice 1 then slice 0, the first holding two tiles
\* with reasons, key (1,0) before key (0,0).
C6_Witness ==
    /\ pc = "done"
    /\ Len(slices) = 2
    /\ slices[1].tile_cache.slice = 1
    /\ slices[2].tile_cache.slice = 0
    /\ Len(slices[1].tile_cache.tiles) = 2
    /\ slices[1].tile_cache.tiles[1].key = Point(1, 0)
    /\ CountOf(invalidation_report, IsSubheader) = 2
    /\ CountOf(invalidation_report, IsSliceOpen) = 2
    /\ TokenKeys(SelectSeq(ReportBlock(1), IsSubheader)) = <<Point(1, 0), Point(0, 0)>>

\* C8: slices_to_svg never aborts: with any reason in any tile, absent
\* PrimCount lists included, the render goes on to return its two strings.
C8_RenderNeverAborts == pc # "panicked"

\* C10: a Content reason with Descriptor detail.  Same primitive uid: the
\* entry is the "changed for uid" form, lists prim_clip_rect exactly when the
\* two clip boxes differ in one of their four components, names the one
\* resolved item, and dumps no record.  Different uids: the entry is the
\* "old uid, new uid" form and dumps the old record and the new record, each
\* with its own uid resolved through the display map.
C10_DescriptorForms ==
    (/\ JustRendered
     /\ IsSome(RenderedEntry.tile.invalidation_reason)
     /\ RenderedReason.tag = "Content"
     /\ IsSome(RenderedReason.prim_compare_result_detail)
     /\ Unwrap(RenderedReason.prim_compare_result_detail).tag = "Descriptor")
    => LET old == Unwrap(RenderedReason.prim_compare_result_detail).old
           new == Unwrap(RenderedReason.prim_compare_result_detail).new
           body == LastEntryBody
           resolved(uid) == IF uid \in DOMAIN itemuid_to_string
                            THEN itemuid_to_string[uid]
                            ELSE ""
           differ == \E c \in {"min", "max"} : \E d \in {"x", "y"} :
                        old.prim_clip_box[c][d] # new.prim_clip_box[c][d]
       IN  IF old.prim_uid = new.prim_uid
           THEN /\ Len(body) = 2
                /\ body[1] = [t |-> "<b>Content: Descriptor</b> changed for uid {}<br/>",
                              uid |-> old.prim_uid]
                /\ body[2].t = "<ul>{}<li>Item: {}</li></ul>"
                /\ Len(body[2].changes) = (IF differ THEN 1 ELSE 0)
                /\ \A n \in 1..Len(body[2].changes) :
                      /\ body[2].changes[n].from = old.prim_clip_box
                      /\ body[2].changes[n].to = new.prim_clip_box
                /\ body[2].item = resolved(old.prim_uid)
                /\ \A n \in 1..Len(body) : "desc" \notin DOMAIN body[n]
           ELSE /\ Len(body) = 3
                /\ body[1] = [t |-> "<b>Content: Descriptor</b> changed; old uid {}, new uid {}:<br/>",
                              old_uid |-> old.prim_uid, new_uid |-> new.prim_uid]
                /\ body[2] = [t |-> "old:<ul><li>Desc: {:?}</li><li>Item: {}</li></ul>",
                              desc |-> old, item |-> resolved(old.prim_uid)]
                /\ body[3] = [t |-> "new:<ul><li>Desc: {:?}</li><li>Item: {}</li></ul>",
                              desc |-> new, item |-> resolved(new.prim_uid)]

\* The same uid with clip boxes that differ in max.y alone: the change is
\* listed.
C10_Witness ==
    /\ JustRendered
    /\ IsSome(RenderedEntry.tile.invalidation_reason)
    /\ RenderedReason.tag = "Content"
    /\ IsSome(RenderedReason.prim_compare_result_detail)
    /\ Unwrap(RenderedReason.prim_compare_result_detail).tag = "Descriptor"
    /\ LET old == Unwrap(RenderedReason.prim_compare_result_detail).old
           new == Unwrap(RenderedReason.prim_compare_result_detail).new
       IN  /\ old.prim_uid = new.prim_uid
           /\ old.prim_clip_box.min = new.prim_clip_box.min
           /\ old.prim_clip_box.max.x = new.prim_clip_box.max.x
           /\ old.prim_clip_box.max.y # new.prim_clip_box.max.y
    /\ Len(LastEntryBody[2].changes) = 1

---------------------------------------------------------------------------
(* Properties of updatelist_to_html, under SpecHtml *)

IsCategoryOpen(tok) == tok.t = "<div class=subheader>{}</div><div class=intern data>"

IsInsertLine(tok) == tok.t = "<div class=insert><b>{}</b> ({:?})</div>"

IsRemoveLine(tok) == tok.t = "<div class=remove><b>{}</b></div>"

\* What follows the supplied report and the "Interning" heading.
InterningPart == SubSeq(html, Len(report_arg) + 3, Len(html))

\* The block of the c-th category written so far.
CategoryBlockOf(c) == BlockOf(InterningPart, IsCategoryOpen, c)

\* The lines a category's batches call for: batch after batch, a batch's
\* insertions before its removals.
LinesCalledFor(lists) ==
    Concat([b \in 1..Len(lists) |->
               [k \in 1..Len(lists[b].insertions) |->
                   [t |-> "<div class=insert><b>{}</b> ({:?})</div>",
                    uid |-> lists[b].insertions[k].uid,
                    value |-> lists[b].insertions[k].value]]
               \o [k \in 1..Len(lists[b].removals) |->
                   [t |-> "<div class=remove><b>{}</b></div>",
                    uid |-> lists[b].removals[k].uid]]])

RECURSIVE SumOf(_)
SumOf(ns) == IF ns = <<>> THEN 0 ELSE ns[1] + SumOf(Tail(ns))

\* C7: after the supplied report, the categories appear in enumeration
\* order, each under its subheading with one insertion line per insertion
\* and one removal line per removal of its batches, batch after batch and in
\* a batch the insertions before the removals; no line of a category stands
\* under another's subheading.
C7_InterningLedger ==
    html_pc \in {"categories", "done"} =>
        /\ SubSeq(html, 1, Len(report_arg) + 2)
              = <<HtmlHead>> \o report_arg \o <<InterningHeader>>
        /\ CountOf(html, IsCategoryOpen) = ci
        /\ \A c \in 1..ci :
              LET block == CategoryBlockOf(c)
                  lists == update_lists[Interners[c]]
                  lines == SubSeq(block, 2, Len(block) - (IF c = ci /\ html_pc = "done" THEN 2 ELSE 1))
              IN  /\ block[1] = [t |-> "<div class=subheader>{}</div><div class=intern data>",
                                 name |-> Interners[c]]
                  /\ CountOf(block, IsInsertLine)
                        = SumOf([b \in 1..Len(lists) |-> Len(lists[b].insertions)])
                  /\ CountOf(block, IsRemoveLine)
                        = SumOf([b \in 1..Len(lists) |-> Len(lists[b].removals)])
                  /\ lines = LinesCalledFor(lists)
        /\ html_pc = "done" => ci = Len(Interners) /\ html[Len(html)] = HtmlTail

\* The finished document for a first category with one batch of two
\* insertions and one batch of one removal, and a second category with one
\* batch that inserts and removes.
C7_Witness ==
    /\ html_pc = "done"
    /\ update_lists[Interners[1]] =
          <<[insertions |-> <<Insertion(2, "b"), Insertion(1, "a")>>, removals |-> <<>>],
            [insertions |-> <<>>, removals |-> <<Removal(2)>>]>>
    /\ Len(update_lists[Interners[2]]) = 1
    /\ update_lists[Interners[2]][1].insertions # <<>>
    /\ update_lists[Interners[2]][1].removals # <<>>
    /\ CountOf(CategoryBlockOf(1), IsInsertLine) = 2
    /\ CountOf(CategoryBlockOf(1), IsRemoveLine) = 1

---------------------------------------------------------------------------
(* Properties of the predecessor lookup of slices_to_svg, under Spec *)

\* The positions of previous_slices whose slice index is that of the
\* current slice.
MatchingPrevs ==
    IF prev_slices = None
    THEN {}
    ELSE {k \in 1..Len(Unwrap(prev_slices)) :
             Unwrap(prev_slices)[k].tile_cache.slice = CurSlice.tile_cache.slice}

\* The tiles of a slice that sit at key.
TilesAt(slice, key) ==
    {slice.tile_cache.tiles[k].tile :
        k \in {n \in 1..Len(slice.tile_cache.tiles) :
                  slice.tile_cache.tiles[n].key = key}}

\* The tile whose rendering panicked.
PanickedEntry == CurSlice.tile_cache.tiles[ti + 1]

\* C11: the predecessor of the current slice is the first element of
\* previous_slices with the current slice's index, none when previous_slices
\* is absent or holds no such element, never a later match; the previous
\* tile is the tile of the same key in that predecessor, or none; and a
\* render stops only in a tile_to_svg that panics on its own tile's reason,
\* never for a missing predecessor or tile.
C11_FirstMatchingPredecessor ==
    /\ pc = "tiles" =>
          /\ MatchingPrevs = {} => prev_slice = None
          /\ MatchingPrevs # {} =>
                /\ IsSome(prev_slice)
                /\ \E k \in MatchingPrevs :
                      /\ \A j \in MatchingPrevs : k <= j
                      /\ Unwrap(prev_slice) = Unwrap(prev_slices)[k]
    /\ JustRendered =>
          /\ prev_slice = None => prev_tile = None
          /\ IsSome(prev_slice) =>
                LET at == TilesAt(Unwrap(prev_slice), RenderedEntry.key)
                IN  /\ at = {} => prev_tile = None
                    /\ at # {} => IsSome(prev_tile) /\ Unwrap(prev_tile) \in at
    /\ pc = "panicked" =>
          /\ IsSome(PanickedEntry.tile.invalidation_reason)
          /\ Unwrap(PanickedEntry.tile.invalidation_reason).tag = "PrimCount"
    /\ (pc = "tiles" /\ ti < Len(CurSlice.tile_cache.tiles)
        /\ CurSlice.tile_cache.tiles[ti + 1].tile.invalidation_reason = None)
          => ENABLED RenderTile

\* previous_slices holds two slices of the current index: the first, which
\* has no tiles, is the predecessor although the later one holds the key,
\* and the tile is rendered without previous tile.
C11_Witness ==
    /\ JustRendered
    /\ Cardinality(MatchingPrevs) = 2
    /\ IsSome(prev_slice)
    /\ Unwrap(prev_slice).tile_cache.tiles = <<>>
    /\ \E k \in MatchingPrevs :
          TilesAt(Unwrap(prev_slices)[k], RenderedEntry.key) # {}
    /\ prev_tile = None

---------------------------------------------------------------------------
(* Properties of max_slice_index, under Spec *)

\* The values max_slice_index is given on entry.
EntryValues == {0, 1}

\* The slice indices of the slices the loop has begun.
IndicesSeen == {slices[k].tile_cache.slice : k \in 1..si}

MaxOf(S) == CHOOSE v \in S : \A u \in S : v >= u

\* C12: after any prefix of the slices, max_slice_index is the maximum of its
\* value on entry and the slice indices of the slices processed so far; it
\* never decreases, and it keeps its entry value when there are no slices.
C12_MaxSliceIndexIsRunningMaximum ==
    /\ max_slice_index \in EntryValues
    /\ \A v \in EntryValues :
          (max_slice_index = v) => [](max_slice_index = MaxOf({v} \cup IndicesSeen))
    /\ [][max_slice_index' >= max_slice_index]_vars

\* Slice 1 then slice 0 have been processed: the maximum stays 1.
C12_Witness ==
    /\ pc = "done"
    /\ Len(slices) = 2
    /\ slices[1].tile_cache.slice = 1
    /\ slices[2].tile_cache.slice = 0
    /\ max_slice_index = 1

=============================================================================
